---- MODULE Spec2Model ----
(***************************************************************************)
(* Model of the node-seal wrapper layer: the handle wrappers (Evaluator,   *)
(* Context, EncryptionParameterQualifiers, ParmsIdType, PlainText,         *)
(* RelinKeys, PublicKey), their lifecycle operations over native handles,  *)
(* and the Exception normalizer.                                           *)
(***************************************************************************)
EXTENDS Integers, Sequences, FiniteSets, TLC

\* ------------------------------------------------------------------------
\* Bounds of the model
\* ------------------------------------------------------------------------
MaxCode == 2
MaxErrId == 2
MaxHandles == 3
MaxWrappers == 2

\* ------------------------------------------------------------------------
\* JavaScript values that travel through throw / catch
\* ------------------------------------------------------------------------
Codes == 0..MaxCode
ErrIds == 1..MaxErrId
Messages == {"", "bad alloc", "invalid argument"}
ErrorNames == {"Error", "TypeError", "BindingError"}

JSNumber(k) == [t |-> "number", name |-> "", n |-> k, s |-> ""]
JSString(str) == [t |-> "string", name |-> "", n |-> 0, s |-> str]
JSNull == [t |-> "null", name |-> "", n |-> 0, s |-> ""]
JSUndefined == [t |-> "undefined", name |-> "", n |-> 0, s |-> ""]
\* an Error object; n is its identity (0 for one created by the wrapper layer)
JSError(nm, id, msg) == [t |-> "error", name |-> nm, n |-> id, s |-> msg]

\* what the native layer (emscripten) can raise
NativeErrors == {JSError(nm, id, m) : nm \in ErrorNames, id \in ErrIds, m \in Messages}
JSValues ==
  {JSNumber(k) : k \in Codes} \cup {JSString(m) : m \in Messages}
    \cup NativeErrors \cup {JSNull, JSUndefined}

\* an argument as written at a call site: f({error: v}) / f({pointer: v})
\* (wrapped) or f(v) (positional)
Options(v) == [wrapped |-> TRUE, val |-> v]
Positional(v) == [wrapped |-> FALSE, val |-> v]
Args == {Options(v) : v \in JSValues} \cup {Positional(v) : v \in JSValues}

\* completion of a call: a returned value or a thrown value
Return(v) == [thrown |-> FALSE, val |-> v]
Throw(v) == [thrown |-> TRUE, val |-> v]
NotCalled == [thrown |-> FALSE, val |-> JSString("<not called>")]

\* the TypeError the engine raises for a null dereference / bad destructuring
NullDeref == JSError("TypeError", 0, "Cannot read property of null")
NotAFunction == JSError("TypeError", 0, "is not a function")
\* the error embind raises when a deleted handle is used
AlreadyDeleted == JSError("BindingError", 0, "instance already deleted")

\* `new Error(message)`
NewError(msg) == JSError("Error", 0, msg)

\* parameter destructuring `({ error })` / `({ pointer })` of one argument
Destructure(arg) ==
  IF arg.wrapped THEN Return(arg.val)
  ELSE IF arg.val.t \in {"null", "undefined"} THEN Throw(NullDeref)
  ELSE Return(JSUndefined)

\* library.getException: the native message table
ExceptionTable(k) == "native exception #" \o ToString(k)
getException(p) ==
  IF p.t = "number" THEN ExceptionTable(p.n) ELSE "native exception at a bad pointer"

\* Exception.getHuman({ pointer })
getHuman(arg) ==
  LET d == Destructure(arg) IN
  IF d.thrown THEN d ELSE Return(JSString(getException(d.val)))

UnknownError == "Unknown Error!"

Falsy(v) == v.t \in {"null", "undefined"} \/ (v.t = "string" /\ v.s = "")

\* Exception.safe with the `instanceof Error` branch lost: an Error is wrapped
\* into a new Error like any other value
safeWrapsErrors(arg) ==
  LET d == Destructure(arg) IN
  IF d.thrown THEN d
  ELSE LET error == d.val IN
    IF error.t = "number"
      THEN Return(NewError(getHuman(Options(error)).val.s))
    ELSE Return(NewError(IF Falsy(error) THEN UnknownError ELSE error.s))

\* Exception.safe({ error })
safe(arg) ==
  LET d == Destructure(arg) IN
  IF d.thrown THEN d
  ELSE LET error == d.val IN
    IF error.t = "number"
      THEN Return(NewError(getHuman(Options(error)).val.s))
    ELSE IF error.t = "error" THEN Return(error)
    ELSE Return(NewError(IF Falsy(error) THEN UnknownError ELSE error.s))

\* ------------------------------------------------------------------------
\* State
\* ------------------------------------------------------------------------
Null == 0
Handles == 1..MaxHandles
Wrappers == 1..MaxWrappers
MaxContent == 1
Contents == 0..MaxContent

Kinds ==
  {"Evaluator", "Evaluator2", "Context", "EncryptionParameterQualifiers",
   "ParmsIdType", "PlainText", "RelinKeys", "PublicKey"}

NoRaise == [t |-> "none", name |-> "", n |-> 0, s |-> ""]
NoSave == ""

VARIABLES
  nIn,    \* the argument an Exception.safe call is made with
  nOut,   \* the completion of that call
  wr,     \* the wrappers: kind ("none" before construction) and _instance
  heap,   \* the native heap: per handle its state, destructor calls, content
  last    \* the record of the last call made on a wrapper

vars == <<nIn, nOut, wr, heap, last>>

\* ------------------------------------------------------------------------
\* The native layer (embind objects of the SEAL library)
\* ------------------------------------------------------------------------
\* what a native call raises when it signals failure: an emscripten
\* exception pointer (a number) or an Error
NativeRaised == {JSNumber(MaxCode), JSError("Error", MaxErrId, "invalid argument")}

FreeHandles == {h \in Handles : heap[h].st = "free"}
NewHandle == CHOOSE h \in FreeHandles : \A g \in FreeHandles : h <= g

\* `new library.X()`: the heap after allocating handle h with content c
Allocate(hp, h, c) == [hp EXCEPT ![h] = [st |-> "live", content |-> c]]

\* `handle.delete()`: the heap after the native destructor is invoked on h.
\* A live handle is destroyed (its content is gone); "dead twice" records
\* that the destructor was invoked again on a destroyed handle.
NativeDelete(hp, h) ==
  [hp EXCEPT ![h] = [st |-> IF hp[h].st = "live" THEN "dead" ELSE "dead twice",
                     content |-> 0]]

\* what a native call that uses handle h can raise; NoRaise stands for the
\* call going through.  embind checks every handle it is given: the use of
\* a deleted handle raises a BindingError.
UseOutcomes(hp, h) ==
  IF hp[h].st = "live" THEN {NoRaise} \cup NativeRaised ELSE {AlreadyDeleted}

\* outcomes of `handle.delete()` itself: it goes through on a live handle
\* and raises "instance already deleted" on a deleted one
DeleteOutcomes(hp, h) ==
  IF hp[h].st = "live" THEN {NoRaise} ELSE {AlreadyDeleted}

\* library.ComprModeType
ComprModes == {"none", "deflate"}
DefaultMode == "deflate"

\* `handle.saveToString(mode)` on a handle whose call goes through
Encode(c, mode) == "seal:" \o mode \o ":" \o ToString(c)

\* ------------------------------------------------------------------------
\* What each kind of wrapper does with a failure
\* ------------------------------------------------------------------------
\* catch (e) { throw Exception.safe(e) }
CatchSafePositional(e) == safe(Positional(e)).val
\* catch (e) { throw _Exception.safe({ error: e }) }
CatchSafeOptions(e) == safe(Options(e)).val
\* catch (e) { throw new Error(typeof e === 'number' ? _Exception.getHuman(e)
\*                             : e instanceof Error ? e.message : e) }
CatchInline(e) ==
  NewError(IF e.t = "number" THEN getHuman(Positional(e)).val.s ELSE e.s)

Surface(how, e) ==
  CASE how = "safePositional" -> CatchSafePositional(e)
    [] how = "safeOptions" -> CatchSafeOptions(e)
    [] how = "inline" -> CatchInline(e)
    [] OTHER -> e

\* the catch clause around the native constructor of each kind
CtorCatch(kind) ==
  CASE kind \in {"Evaluator", "Context"} -> "safePositional"
    [] kind = "Evaluator2" -> "inline"
    [] OTHER -> "raw"

\* the catch clause around the domain operations of each kind
\* (Context#parametersSet, PlainText#isZero, save and load have none)
OpCatch(kind) ==
  CASE kind \in {"Evaluator", "ParmsIdType"} -> "safePositional"
    [] kind = "EncryptionParameterQualifiers" -> "safeOptions"
    [] kind = "Evaluator2" -> "inline"
    [] OTHER -> "raw"

\* the kinds that define a delete method
HasDelete(kind) ==
  kind \in {"Evaluator", "Context", "EncryptionParameterQualifiers", "ParmsIdType"}

\* the kinds that define save
HasSave(kind) == kind \in {"PlainText", "RelinKeys", "PublicKey"}

\* the kinds whose domain operation is a getter / a query of the handle
HasGetter(kind) ==
  kind \in {"Context", "EncryptionParameterQualifiers", "ParmsIdType", "PlainText"}

\* ------------------------------------------------------------------------
\* The record of a call
\* ------------------------------------------------------------------------
\* no wrapper: `undefined` or `null` where a wrapper could be returned
NoWrapper == [kind |-> "none", inst |-> Null]

\* op, w, kind: the method, the wrapper it is called on and its kind;
\* out, err: the completion and the value thrown; raised: what the native
\* layer raised; norm: passes through a catch clause; held: _instance at the
\* call; arg: the handle passed in; dtor: the handles whose native destructor
\* was invoked; fwd: native calls forwarded; pre, ret: encodings; mode, enc:
\* the compression value and the encoded input; ctx: what load passed as the
\* context; name: the Evaluator method; native: the native method it
\* called; src, dst: the operand and destination wrappers (0: none);
\* x: the content of the operand at the call; retw: the wrapper returned;
\* found: the context has data for the parmsId asked for; sent: the
\* compression argument save passed to saveToString ("": none)
\* deg, bits: the arguments of CoeffModulus.Create; vec: what it returned
NoCall ==
  [op |-> "none", w |-> 0, kind |-> "none", out |-> "ok", err |-> JSUndefined,
   raised |-> NoRaise, norm |-> 0, held |-> Null, arg |-> Null, dtor |-> <<>>,
   fwd |-> 0, again |-> FALSE, pre |-> NoSave, ret |-> NoSave,
   mode |-> "", enc |-> "", ctx |-> "", name |-> "", native |-> "",
   src |-> 0, dst |-> 0, x |-> 0, retw |-> NoWrapper, found |-> FALSE,
   sent |-> "", deg |-> 0, bits |-> [ctor |-> "none", elems |-> <<>>], vec |-> <<>>]

Call(op, w, kind) ==
  [NoCall EXCEPT !.op = op, !.w = w, !.kind = kind, !.held = wr[w].inst,
                 !.again = (op = "delete" /\ last.op = op /\ last.w = w)]

\* the call failed: native raised e (NoRaise when the failure is the
\* engine's own TypeError), the caller sees `seen`
Failed(c, e, seen, how) ==
  [c EXCEPT !.out = "throw", !.raised = e, !.err = seen,
            !.norm = IF how = "raw" THEN 0 ELSE 1]

Constructed == {w \in Wrappers : wr[w].kind # "none"}

\* the wrappers of one scenario: wrappers of one kind (they meet in inject),
\* or an Evaluator with the PlainText operands of its operations
Together(k1, k2) ==
  \/ k1 = k2
  \/ {k1, k2} \in {{"Evaluator", "PlainText"}, {"Evaluator2", "PlainText"},
                   {"Evaluator", "CipherText"}, {"Evaluator2", "CipherText"},
                   {"PlainText", "CipherText"}}
Fits(kind) == \A v \in Constructed : Together(kind, wr[v].kind)

\* the k-th wrapper of a scenario is wrapper k
NextWrapper(w) == wr[w].kind = "none" /\ \A v \in 1..(w - 1) : wr[v].kind # "none"

Init ==
  /\ nIn = Positional(JSUndefined)
  /\ nOut = NotCalled
  /\ wr = [w \in Wrappers |-> [kind |-> "none", inst |-> Null]]
  /\ heap = [h \in Handles |-> [st |-> "free", content |-> 0]]
  /\ last = NoCall

\* ------------------------------------------------------------------------
\* Construction
\* ------------------------------------------------------------------------
\* EncryptionParameterQualifiers: `let _instance = null`, no native call
ConstructEmpty(w) ==
  /\ NextWrapper(w)
  /\ Fits("EncryptionParameterQualifiers")
  /\ wr' = [wr EXCEPT ![w] = [kind |-> "EncryptionParameterQualifiers", inst |-> Null]]
  /\ last' = Call("construct", w, "EncryptionParameterQualifiers")
  /\ UNCHANGED <<nIn, nOut, heap>>

\* every other kind: `_instance = new library.X(...)`, which allocates a
\* handle or signals failure; ParmsIdType() is the no-argument form
Construct(w, kind) ==
  /\ NextWrapper(w)
  /\ kind \in Kinds \ {"EncryptionParameterQualifiers"}
  /\ Fits(kind)
  /\ \E e \in {NoRaise} \cup NativeRaised :
       IF e = NoRaise
         THEN /\ FreeHandles # {}
              /\ heap' = Allocate(heap, NewHandle, 0)
              /\ wr' = [wr EXCEPT ![w] = [kind |-> kind, inst |-> NewHandle]]
              /\ last' = Call("construct", w, kind)
         ELSE /\ last' = Failed(Call("construct", w, kind), e,
                                Surface(CtorCatch(kind), e), CtorCatch(kind))
              /\ UNCHANGED <<wr, heap>>
  /\ UNCHANGED <<nIn, nOut>>

\* CipherText(): the factory the Evaluator is given for its operands and
\* results; it allocates a native ciphertext
ConstructCipherText(w) ==
  /\ NextWrapper(w)
  /\ Fits("CipherText")
  /\ FreeHandles # {}
  /\ heap' = Allocate(heap, NewHandle, 0)
  /\ wr' = [wr EXCEPT ![w] = [kind |-> "CipherText", inst |-> NewHandle]]
  /\ last' = Call("construct", w, "CipherText")
  /\ UNCHANGED <<nIn, nOut>>

\* ------------------------------------------------------------------------
\* delete
\* ------------------------------------------------------------------------
\* delete() { if (_instance) { _instance.delete(); _instance = null } }
\* RelinKeys, PublicKey, PlainText and the options-object Evaluator define
\* no delete: the call is a TypeError of the engine.
Delete(w) ==
  /\ w \in Constructed
  /\ LET kind == wr[w].kind
         held == wr[w].inst
         c == Call("delete", w, kind)
     IN IF ~HasDelete(kind)
          THEN /\ last' = Failed(c, NoRaise, NotAFunction, "raw")
               /\ UNCHANGED <<wr, heap>>
        ELSE IF held = Null
          THEN /\ last' = c
               /\ UNCHANGED <<wr, heap>>
        ELSE /\ heap' = NativeDelete(heap, held)
             /\ \E e \in DeleteOutcomes(heap, held) :
                  IF e = NoRaise
                    THEN /\ wr' = [wr EXCEPT ![w].inst = Null]
                         /\ last' = [c EXCEPT !.dtor = <<held>>]
                    ELSE /\ wr' = wr
                         /\ last' = Failed([c EXCEPT !.dtor = <<held>>], e, e, "raw")
  /\ UNCHANGED <<nIn, nOut>>

\* ------------------------------------------------------------------------
\* inject
\* ------------------------------------------------------------------------
\* inject(instance) { if (_instance) { _instance.delete(); _instance = null }
\*                    _instance = instance }
\* on heap hp, with c the record of the call and a the injected handle
InjectRelease(w, a, hp, c) ==
  LET held == wr[w].inst IN
  IF held = Null
    THEN /\ wr' = [wr EXCEPT ![w].inst = a]
         /\ heap' = hp
         /\ last' = c
    ELSE /\ heap' = NativeDelete(hp, held)
         /\ \E e \in DeleteOutcomes(hp, held) :
              IF e = NoRaise
                THEN /\ wr' = [wr EXCEPT ![w].inst = a]
                     /\ last' = [c EXCEPT !.dtor = <<held>>]
                ELSE /\ wr' = wr
                     /\ last' = Failed([c EXCEPT !.dtor = <<held>>], e, e, "raw")

\* PublicKey: inject({instance}) { if (this._instance) { delete this._instance }
\*                                 this._instance = instance }
\* `delete this._instance` removes the property; no native destructor runs
InjectPublicKey(w, a, hp, c) ==
  /\ wr' = [wr EXCEPT ![w].inst = a]
  /\ heap' = hp
  /\ last' = c

\* ParmsIdType: inject(instance) { if (_instance) { _instance.delete();
\*   _instance = null }  _instance = new Constructor(instance)
\*   instance.delete() }
InjectParmsIdType(w, a, hp, c) ==
  LET held == wr[w].inst
      hp1 == IF held = Null THEN hp ELSE NativeDelete(hp, held)
      d1 == IF held = Null THEN <<>> ELSE <<held>>
      free1 == {h \in Handles : hp1[h].st = "free"}
      copy == CHOOSE h \in free1 : \A g \in free1 : h <= g
  IN
  \E e1 \in (IF held = Null THEN {NoRaise} ELSE DeleteOutcomes(hp, held)) :
       IF e1 # NoRaise
         THEN \* the release of the held handle raised
              /\ wr' = wr
              /\ heap' = hp1
              /\ last' = Failed([c EXCEPT !.dtor = d1], e1, e1, "raw")
       ELSE IF a = Null
         THEN \* new Constructor(null): embind rejects the argument
              /\ wr' = [wr EXCEPT ![w].inst = Null]
              /\ heap' = hp1
              /\ last' = Failed([c EXCEPT !.dtor = d1], AlreadyDeleted, AlreadyDeleted, "raw")
       ELSE \E e2 \in (IF hp1[a].st = "live" THEN {NoRaise} ELSE {AlreadyDeleted}) :
         IF e2 # NoRaise
           THEN /\ wr' = [wr EXCEPT ![w].inst = Null]
                /\ heap' = hp1
                /\ last' = Failed([c EXCEPT !.dtor = d1], e2, e2, "raw")
           ELSE /\ free1 # {}
                /\ LET hp2 == Allocate(hp1, copy, hp1[a].content)
                       hp3 == NativeDelete(hp2, a)
                       d3 == Append(d1, a)
                   IN /\ wr' = [wr EXCEPT ![w].inst = copy]
                      /\ heap' = hp3
                      /\ \E e3 \in DeleteOutcomes(hp2, a) :
                           last' = IF e3 = NoRaise THEN [c EXCEPT !.dtor = d3]
                                   ELSE Failed([c EXCEPT !.dtor = d3], e3, e3, "raw")

\* what src.save() returns when the call goes through ("" when src has no
\* save or holds no handle)
SaveOf(hp, kind, h) ==
  IF HasSave(kind) /\ h # Null THEN Encode(hp[h].content, DefaultMode) ELSE NoSave

\* w.inject(src.instance) for a wrapper src of the same kind
Inject(w, src) ==
  /\ w \in Constructed
  /\ src \in Constructed
  /\ wr[src].kind = wr[w].kind
  /\ LET kind == wr[w].kind
         a == wr[src].inst
         c == [Call("inject", w, kind) EXCEPT
                 !.arg = a,
                 !.pre = IF a # Null /\ heap[a].st = "live"
                           THEN SaveOf(heap, kind, a) ELSE NoSave]
     IN CASE kind = "PublicKey" -> InjectPublicKey(w, a, heap, c)
          [] kind = "ParmsIdType" -> InjectParmsIdType(w, a, heap, c)
          [] OTHER -> InjectRelease(w, a, heap, c)
  /\ UNCHANGED <<nIn, nOut>>

\* w.inject(handle) for a handle the native layer has just produced (the
\* result of a key generator, a context getter, a static helper)
InjectNew(w, content) ==
  /\ w \in Constructed
  /\ FreeHandles # {}
  /\ LET kind == wr[w].kind
         a == NewHandle
         hp == Allocate(heap, a, content)
         c == [Call("inject", w, kind) EXCEPT !.arg = a]
     IN CASE kind = "PublicKey" -> InjectPublicKey(w, a, hp, c)
          [] kind = "ParmsIdType" -> InjectParmsIdType(w, a, hp, c)
          [] OTHER -> InjectRelease(w, a, hp, c)
  /\ UNCHANGED <<nIn, nOut>>

\* ------------------------------------------------------------------------
\* Domain operations
\* ------------------------------------------------------------------------
\* a getter or query that forwards to the held handle:
\* Context#parametersSet, EncryptionParameterQualifiers#parametersSet,
\* ParmsIdType#values, PlainText#isZero
Getter(w) ==
  /\ w \in Constructed
  /\ HasGetter(wr[w].kind)
  /\ LET kind == wr[w].kind
         held == wr[w].inst
         how == OpCatch(kind)
         c == Call("get", w, kind)
     IN IF held = Null
          THEN last' = Failed(c, NoRaise, Surface(how, NullDeref), how)
          ELSE \E e \in UseOutcomes(heap, held) :
                 last' = IF e = NoRaise THEN [c EXCEPT !.fwd = 1]
                         ELSE Failed([c EXCEPT !.fwd = 1], e, Surface(how, e), how)
  /\ UNCHANGED <<nIn, nOut, wr, heap>>

\* Context#getContextData(parmsId):
\*   try { const instance = _instance.getContextData(parmsId.instance)
\*         const contextData = ContextData()
\*         contextData.unsafeInject(instance)
\*         return contextData } catch (e) { throw Exception.safe(e) }
\* found: the context has parameters with the given parmsId; the native
\* getContextData answers a handle to them, or nullptr
GetContextData(w, found) ==
  /\ w \in Constructed
  /\ wr[w].kind = "Context"
  /\ LET kind == wr[w].kind
         held == wr[w].inst
         how == "safePositional"
         c == [Call("getContextData", w, kind) EXCEPT !.found = found]
     IN IF held = Null
          THEN /\ last' = Failed(c, NoRaise, Surface(how, NullDeref), how)
               /\ heap' = heap
          ELSE \E e \in UseOutcomes(heap, held) :
                 IF e # NoRaise
                   THEN /\ last' = Failed([c EXCEPT !.fwd = 1], e, Surface(how, e), how)
                        /\ heap' = heap
                 ELSE IF found
                   THEN /\ FreeHandles # {}
                        /\ heap' = Allocate(heap, NewHandle, 0)
                        /\ last' = [c EXCEPT !.fwd = 1, !.retw =
                                      [kind |-> "ContextData", inst |-> NewHandle]]
                 ELSE /\ heap' = heap
                      /\ last' = [c EXCEPT !.fwd = 1, !.retw =
                                    [kind |-> "ContextData", inst |-> Null]]
  /\ UNCHANGED <<nIn, nOut, wr>>

\* ------------------------------------------------------------------------
\* ParmsIdType(instance) and the getters of Context that return a wrapper
\* ------------------------------------------------------------------------
\* a variant of createParms that copies the handle it is given and leaves
\* the original alone
createParmsKeepsArgument(hp, a) ==
  LET free == {h \in Handles : hp[h].st = "free"}
      inst == CHOOSE h \in free : \A g \in free : h <= g
  IN IF a = Null
       THEN [inst |-> inst, heap |-> Allocate(hp, inst, 0), dtor |-> <<>>, e |-> NoRaise]
     ELSE IF hp[a].st # "live"
       THEN [inst |-> Null, heap |-> hp, dtor |-> <<>>, e |-> AlreadyDeleted]
     ELSE [inst |-> inst, heap |-> Allocate(hp, inst, hp[a].content),
           dtor |-> <<>>, e |-> NoRaise]

\* function createParms(instance) {
\*   if (instance) { const inst = new Constructor(instance)
\*                   instance.delete()
\*                   return inst }
\*   else { return new Constructor() } }
\* on heap hp (which has a free handle), for the handle a it is given (Null:
\* none): the handle returned, the heap, the destructor calls, what it raised
createParms(hp, a) ==
  LET free == {h \in Handles : hp[h].st = "free"}
      inst == CHOOSE h \in free : \A g \in free : h <= g
  IN IF a = Null
       THEN [inst |-> inst, heap |-> Allocate(hp, inst, 0), dtor |-> <<>>, e |-> NoRaise]
     ELSE IF hp[a].st # "live"
       THEN [inst |-> Null, heap |-> hp, dtor |-> <<>>, e |-> AlreadyDeleted]
     ELSE [inst |-> inst,
           heap |-> NativeDelete(Allocate(hp, inst, hp[a].content), a),
           dtor |-> <<a>>, e |-> NoRaise]

\* ParmsIdType(a): `let _instance = createParms(instance)`, outside any try
\* block; when createParms throws, no wrapper comes to exist
ParmsIdTypeOf(w, a, hp) ==
  /\ NextWrapper(w)
  /\ Fits("ParmsIdType")
  /\ \E h \in Handles : hp[h].st = "free"
  /\ LET r == createParms(hp, a)
         c == [Call("construct", w, "ParmsIdType") EXCEPT !.arg = a, !.dtor = r.dtor]
     IN /\ heap' = r.heap
        /\ IF r.e = NoRaise
             THEN /\ wr' = [wr EXCEPT ![w] = [kind |-> "ParmsIdType", inst |-> r.inst]]
                  /\ last' = c
             ELSE /\ wr' = wr
                  /\ last' = Failed(c, r.e, r.e, "raw")
  /\ UNCHANGED <<nIn, nOut>>

\* ParmsIdType(src.instance) for a ParmsIdType wrapper src
ConstructParmsIdType(w, src) ==
  /\ src \in Constructed
  /\ wr[src].kind = "ParmsIdType"
  /\ ParmsIdTypeOf(w, wr[src].inst, heap)

\* ParmsIdType(handle) for a handle the native layer has just produced
ConstructParmsIdTypeNew(w, content) ==
  /\ FreeHandles # {}
  /\ ParmsIdTypeOf(w, NewHandle, Allocate(heap, NewHandle, content))

ParmsIdGetters == {"keyParmsId", "firstParmsId", "lastParmsId"}
ContextDataGetters == {"keyContextData", "firstContextData", "lastContextData"}

\* get keyParmsId() { return ParmsIdType(_instance.keyParmsId()) }
\* and firstParmsId, lastParmsId alike; there is no catch clause
ParmsIdGetter(w, name) ==
  /\ w \in Constructed
  /\ wr[w].kind = "Context"
  /\ name \in ParmsIdGetters
  /\ LET held == wr[w].inst
         c == [Call("get", w, "Context") EXCEPT !.name = name]
     IN IF held = Null
          THEN /\ last' = Failed(c, NoRaise, NullDeref, "raw")
               /\ heap' = heap
          ELSE \E e \in UseOutcomes(heap, held) :
                 IF e # NoRaise
                   THEN /\ last' = Failed([c EXCEPT !.fwd = 1], e, e, "raw")
                        /\ heap' = heap
                   ELSE /\ Cardinality(FreeHandles) >= 2
                        /\ LET h == NewHandle
                               r == createParms(Allocate(heap, h, 0), h)
                           IN /\ heap' = r.heap
                              /\ last' = [c EXCEPT !.fwd = 1, !.arg = h, !.dtor = r.dtor,
                                            !.retw = [kind |-> "ParmsIdType", inst |-> r.inst]]
  /\ UNCHANGED <<nIn, nOut, wr>>

\* ContextData() followed by unsafeInject(h): the factory builds a wrapper
\* that holds no handle, and unsafeInject stores the one it is given
ContextDataHolding(h) == [kind |-> "ContextData", inst |-> h]

\* get keyContextData() {
\*   try { const instance = _instance.keyContextData()
\*         const contextData = ContextData()
\*         contextData.unsafeInject(instance)
\*         return contextData } catch (e) { throw Exception.safe(e) } }
\* and firstContextData, lastContextData alike
ContextDataGetter(w, name) ==
  /\ w \in Constructed
  /\ wr[w].kind = "Context"
  /\ name \in ContextDataGetters
  /\ LET held == wr[w].inst
         how == "safePositional"
         c == [Call("get", w, "Context") EXCEPT !.name = name]
     IN IF held = Null
          THEN /\ last' = Failed(c, NoRaise, Surface(how, NullDeref), how)
               /\ heap' = heap
          ELSE \E e \in UseOutcomes(heap, held) :
                 IF e # NoRaise
                   THEN /\ last' = Failed([c EXCEPT !.fwd = 1], e, Surface(how, e), how)
                        /\ heap' = heap
                   ELSE /\ FreeHandles # {}
                        /\ heap' = Allocate(heap, NewHandle, 0)
                        /\ last' = [c EXCEPT !.fwd = 1, !.arg = NewHandle,
                                            !.retw = ContextDataHolding(NewHandle)]
  /\ UNCHANGED <<nIn, nOut, wr>>

\* ------------------------------------------------------------------------
\* save and load
\* ------------------------------------------------------------------------
\* the values a caller can pass as `compression`: the members of
\* library.ComprModeType, or a value that is none of them
SaveModes == ComprModes \cup {"lzma"}

\* the mode the native saveToString works with: a member of the enumeration
\* as it is, and for any other value the enumeration's value 0 (embind reads
\* `.value` of what it is given)
NativeMode(mode) == IF mode \in ComprModes THEN mode ELSE "none"

\* the compression argument save passes to saveToString: the one selected,
\* except PublicKey#save, `save() { return this._instance.saveToString() }`,
\* which passes none
ModeForwarded(kind, mode) == IF kind = "PublicKey" THEN "" ELSE mode

\* save with a guard that answers the empty string on an empty slot
SaveQuietOnNull(w, mode) ==
  /\ w \in Constructed
  /\ HasSave(wr[w].kind)
  /\ wr[w].kind = "PublicKey" => mode = DefaultMode
  /\ LET kind == wr[w].kind
         held == wr[w].inst
         c == [Call("save", w, kind) EXCEPT !.mode = mode]
     IN IF held = Null
          THEN last' = c
          ELSE \E e \in UseOutcomes(heap, held) :
                 last' = IF e = NoRaise
                           THEN [c EXCEPT !.fwd = 1,
                                          !.ret = Encode(heap[held].content, NativeMode(mode))]
                           ELSE Failed([c EXCEPT !.fwd = 1], e, e, "raw")
  /\ UNCHANGED <<nIn, nOut, wr, heap>>

\* save({ compression = ComprModeType.deflate } = {}) {
\*   return _instance.saveToString(compression) }
\* PublicKey#save takes no argument and passes no mode: the native default
\* applies whatever the caller writes
Save(w, mode) ==
  /\ w \in Constructed
  /\ HasSave(wr[w].kind)
  /\ wr[w].kind = "PublicKey" => mode = DefaultMode
  /\ LET kind == wr[w].kind
         held == wr[w].inst
         c == [Call("save", w, kind) EXCEPT !.mode = mode]
     IN IF held = Null
          THEN last' = Failed(c, NoRaise, NullDeref, "raw")
          ELSE \E e \in UseOutcomes(heap, held) :
                 last' = IF e = NoRaise
                           THEN [c EXCEPT !.fwd = 1, !.sent = ModeForwarded(kind, mode),
                                          !.ret = Encode(heap[held].content, NativeMode(mode))]
                           ELSE Failed([c EXCEPT !.fwd = 1, !.sent = ModeForwarded(kind, mode)],
                                       e, e, "raw")
  /\ UNCHANGED <<nIn, nOut, wr, heap>>

\* the encodings saveToString can produce, and inputs that are none of them:
\* a truncated encoding, and one with a corrupted header
ValidEncodings == {Encode(c, m) : c \in Contents, m \in ComprModes}
Corrupted == {"seal:deflate:", "XqEQ:deflate:0"}
Encodings == ValidEncodings \cup Corrupted

\* what the native loadFromString reconstructs from a valid encoding
Decode(enc) ==
  CHOOSE c \in Contents : \E m \in ComprModes : Encode(c, m) = enc
ModeOf(enc) ==
  CHOOSE m \in ComprModes : \E c \in Contents : Encode(c, m) = enc

\* the kinds that define load
HasLoad(kind) == kind \in {"PlainText", "RelinKeys", "PublicKey"}

\* what load passes as the context: PlainText and RelinKeys pass
\* context.instance, PublicKey passes the Context wrapper itself
CtxArg(kind) == IF kind = "PublicKey" THEN "wrapper" ELSE "instance"

\* the error embind raises when an argument is not a native object
BadArgument == JSError("BindingError", 0, "cannot pass argument as SEALContext")

\* what `handle.loadFromString(ctx, enc)` can raise: a deleted handle and an
\* argument that is no native context are rejected by embind; a valid
\* encoding loads; any other input makes the native parser throw
LoadOutcomes(hp, h, ctx, enc) ==
  IF hp[h].st # "live" THEN {AlreadyDeleted}
  ELSE IF ctx # "instance" THEN {BadArgument}
  ELSE IF enc \in ValidEncodings THEN {NoRaise}
  ELSE NativeRaised

\* load that gives up its handle when the native loadFromString fails
LoadDropsHandleOnFailure(w, enc) ==
  /\ w \in Constructed
  /\ HasLoad(wr[w].kind)
  /\ LET kind == wr[w].kind
         held == wr[w].inst
         c == [Call("load", w, kind) EXCEPT
                 !.enc = enc, !.ctx = CtxArg(kind),
                 !.pre = IF held # Null /\ heap[held].st = "live"
                           THEN SaveOf(heap, kind, held) ELSE NoSave]
     IN IF held = Null
          THEN /\ last' = Failed(c, NoRaise, NullDeref, "raw")
               /\ heap' = heap
               /\ wr' = wr
          ELSE \E e \in LoadOutcomes(heap, held, CtxArg(kind), enc) :
                 IF e = NoRaise
                   THEN /\ last' = [c EXCEPT !.fwd = 1]
                        /\ heap' = [heap EXCEPT ![held].content = Decode(enc)]
                        /\ wr' = wr
                   ELSE /\ last' = Failed([c EXCEPT !.fwd = 1], e, e, "raw")
                        /\ heap' = heap
                        /\ wr' = [wr EXCEPT ![w].inst = Null]
  /\ UNCHANGED <<nIn, nOut>>

\* load({context, encoded}) { _instance.loadFromString(context.instance, encoded) }
Load(w, enc) ==
  /\ w \in Constructed
  /\ HasLoad(wr[w].kind)
  /\ LET kind == wr[w].kind
         held == wr[w].inst
         c == [Call("load", w, kind) EXCEPT
                 !.enc = enc, !.ctx = CtxArg(kind),
                 !.pre = IF held # Null /\ heap[held].st = "live"
                           THEN SaveOf(heap, kind, held) ELSE NoSave]
     IN IF held = Null
          THEN /\ last' = Failed(c, NoRaise, NullDeref, "raw")
               /\ heap' = heap
          ELSE \E e \in LoadOutcomes(heap, held, CtxArg(kind), enc) :
                 IF e = NoRaise
                   THEN /\ last' = [c EXCEPT !.fwd = 1]
                        /\ heap' = [heap EXCEPT ![held].content = Decode(enc)]
                   ELSE /\ last' = Failed([c EXCEPT !.fwd = 1], e, e, "raw")
                        /\ heap' = heap
  /\ UNCHANGED <<nIn, nOut, wr>>

\* saveArray() / loadArray(context, array): no wrapper kind defines them; the
\* call is a TypeError of the engine
SaveArray(w) ==
  /\ w \in Constructed
  /\ HasSave(wr[w].kind)
  /\ last' = Failed(Call("saveArray", w, wr[w].kind), NoRaise, NotAFunction, "raw")
  /\ UNCHANGED <<nIn, nOut, wr, heap>>

LoadArray(w) ==
  /\ w \in Constructed
  /\ HasLoad(wr[w].kind)
  /\ last' = Failed(Call("loadArray", w, wr[w].kind), NoRaise, NotAFunction, "raw")
  /\ UNCHANGED <<nIn, nOut, wr, heap>>

\* w.inject({ instance: null }): the caller passes no handle
InjectNull(w) ==
  /\ w \in Constructed
  /\ LET kind == wr[w].kind
         c == Call("inject", w, kind)
     IN CASE kind = "PublicKey" -> InjectPublicKey(w, Null, heap, c)
          [] kind = "ParmsIdType" -> InjectParmsIdType(w, Null, heap, c)
          [] OTHER -> InjectRelease(w, Null, heap, c)
  /\ UNCHANGED <<nIn, nOut>>

\* the result the native operation computes from its operand
OpResult(x) == (x + 1) % (MaxContent + 1)

\* Evaluator#plainModSwitchToNext(plain, destination) with a destination:
\*   try { _instance.plainModSwitchToNext(plain.instance, destination.instance) }
\*   catch (e) { ... }
EvalOp(w, p, d) ==
  /\ w \in Constructed /\ p \in Constructed /\ d \in Constructed
  /\ wr[w].kind \in {"Evaluator", "Evaluator2"}
  /\ wr[p].kind = "PlainText" /\ wr[d].kind = "PlainText"
  /\ LET kind == wr[w].kind
         held == wr[w].inst
         how == OpCatch(kind)
         c == Call("op", w, kind)
         used == {held, wr[p].inst, wr[d].inst}
         outcomes ==
           IF Null \in used THEN {AlreadyDeleted}
           ELSE IF \E h \in used : heap[h].st # "live" THEN {AlreadyDeleted}
           ELSE {NoRaise} \cup NativeRaised
     IN IF held = Null
          THEN /\ last' = Failed(c, NoRaise, Surface(how, NullDeref), how)
               /\ heap' = heap
          ELSE \E e \in outcomes :
                 IF e = NoRaise
                   THEN /\ last' = [c EXCEPT !.fwd = 1]
                        /\ heap' = [heap EXCEPT ![wr[d].inst].content =
                                       OpResult(heap[wr[p].inst].content)]
                   ELSE /\ last' = Failed([c EXCEPT !.fwd = 1], e, Surface(how, e), how)
                        /\ heap' = heap
  /\ UNCHANGED <<nIn, nOut, wr>>

\* the Evaluator methods of the model: one on plaintexts and the two NTT
\* transforms of a ciphertext
EvalOps == {"plainModSwitchToNext", "cipherTransformToNtt", "cipherTransformFromNtt"}

\* the wrapper kind of a method's operand, destination and result
OperandKind(name) ==
  IF name = "plainModSwitchToNext" THEN "PlainText" ELSE "CipherText"

\* the native method a wrapper method calls.  Without a destination,
\* cipherTransformFromNtt of the positional Evaluator calls
\* _instance.cipherTransformToNtt
NativeCalled(kind, name, d) ==
  IF kind = "Evaluator" /\ name = "cipherTransformFromNtt" /\ d = 0
    THEN "cipherTransformToNtt" ELSE name

\* what each native method computes from the content of its operand
NativeOp(native, x) ==
  CASE native = "plainModSwitchToNext" -> OpResult(x)
    [] native = "cipherTransformToNtt" -> IF x < MaxContent THEN x + 1 ELSE MaxContent
    [] native = "cipherTransformFromNtt" -> IF x > 0 THEN x - 1 ELSE 0

\* what the native method can raise when it is given handles hs
OpOutcomes(hp, hs) ==
  IF Null \in hs \/ \E h \in hs \ {Null} : hp[h].st # "live"
    THEN {AlreadyDeleted} ELSE {NoRaise} \cup NativeRaised

\* a variant that takes ownership of its operand: the method destroys the
\* operand's handle and clears the operand's slot once the native call is made
EvaluateConsumesOperand(w, name, p, d) ==
  /\ w \in Constructed /\ p \in Constructed
  /\ wr[w].kind \in {"Evaluator", "Evaluator2"}
  /\ name \in EvalOps
  /\ wr[p].kind = OperandKind(name)
  /\ d # 0 /\ d \in Constructed /\ wr[d].kind = OperandKind(name)
  /\ wr[w].inst # Null /\ wr[p].inst # Null /\ wr[d].inst # Null
  /\ \A h \in {wr[w].inst, wr[p].inst, wr[d].inst} : heap[h].st = "live"
  /\ LET a == wr[p].inst
         native == NativeCalled(wr[w].kind, name, d)
         hp == [heap EXCEPT ![wr[d].inst].content = NativeOp(native, heap[a].content)]
     IN /\ heap' = NativeDelete(hp, a)
        /\ wr' = [wr EXCEPT ![p].inst = Null]
        /\ last' = [Call("op", w, wr[w].kind) EXCEPT
                      !.name = name, !.src = p, !.dst = d, !.arg = a,
                      !.x = heap[a].content, !.fwd = 1, !.native = native,
                      !.dtor = <<a>>]
  /\ UNCHANGED <<nIn, nOut>>

\* an Evaluator method called with operand wrapper p and destination d
\* (d = 0: no destination).
\* positional Evaluator:
\*   try { if (destination) { _instance.op(p.instance, destination.instance)
\*                            return }
\*         const temp = CipherText()
\*         _instance.op(p.instance, temp.instance)
\*         return temp } catch (e) { throw Exception.safe(e) }
\* options-object Evaluator:
\*   try { _instance.op(p.instance, destination.instance) }
\*   catch (e) { throw new Error(...) }
Evaluate(w, name, p, d) ==
  /\ w \in Constructed /\ p \in Constructed
  /\ wr[w].kind \in {"Evaluator", "Evaluator2"}
  /\ name \in EvalOps
  /\ wr[p].kind = OperandKind(name)
  /\ d # 0 => (d \in Constructed /\ wr[d].kind = OperandKind(name))
  /\ LET kind == wr[w].kind
         held == wr[w].inst
         how == OpCatch(kind)
         a == wr[p].inst
         native == NativeCalled(kind, name, d)
         c == [Call("op", w, kind) EXCEPT
                 !.name = name, !.src = p, !.dst = d, !.arg = a,
                 !.x = IF a # Null THEN heap[a].content ELSE 0]
         called == [c EXCEPT !.fwd = 1, !.native = native]
     IN IF d # 0
          THEN IF held = Null
                 THEN /\ last' = Failed(c, NoRaise, Surface(how, NullDeref), how)
                      /\ heap' = heap
                 ELSE \E e \in OpOutcomes(heap, {held, a, wr[d].inst}) :
                        IF e = NoRaise
                          THEN /\ last' = called
                               /\ heap' = [heap EXCEPT ![wr[d].inst].content =
                                              NativeOp(native, c.x)]
                          ELSE /\ last' = Failed(called, e, Surface(how, e), how)
                               /\ heap' = heap
        ELSE IF kind = "Evaluator2"
          THEN \* `destination.instance` of undefined
               /\ last' = Failed(c, NoRaise, Surface(how, NullDeref), how)
               /\ heap' = heap
        ELSE /\ FreeHandles # {}
             /\ LET t == NewHandle
                    hp == Allocate(heap, t, 0)
                IN IF held = Null
                     THEN /\ last' = Failed(c, NoRaise, Surface(how, NullDeref), how)
                          /\ heap' = hp
                     ELSE \E e \in OpOutcomes(hp, {held, a, t}) :
                            IF e = NoRaise
                              THEN /\ last' = [called EXCEPT !.retw =
                                                 [kind |-> OperandKind(name), inst |-> t]]
                                   /\ heap' = [hp EXCEPT ![t].content = NativeOp(native, c.x)]
                              ELSE /\ last' = Failed(called, e, Surface(how, e), how)
                                   /\ heap' = hp
  /\ UNCHANGED <<nIn, nOut, wr>>

Next ==
  \/ \E w \in Wrappers : ConstructEmpty(w)
  \/ \E w \in Wrappers, kind \in Kinds : Construct(w, kind)
  \/ \E w \in Wrappers : Delete(w)
  \/ \E w \in Wrappers, src \in Wrappers : Inject(w, src)
  \/ \E w \in Wrappers, content \in Contents : InjectNew(w, content)
  \/ \E w \in Wrappers : Getter(w)
  \/ \E w \in Wrappers, found \in BOOLEAN : GetContextData(w, found)
  \/ \E w \in Wrappers, mode \in ComprModes : Save(w, mode)
  \/ \E w \in Wrappers, p \in Wrappers, d \in Wrappers : EvalOp(w, p, d)

Spec == Init /\ [][Next]_vars

\* ------------------------------------------------------------------------
\* The wrappers with save and load
\* ------------------------------------------------------------------------
CodecKinds == {"PlainText", "RelinKeys", "PublicKey"}

NextCodec ==
  \/ \E w \in Wrappers, kind \in CodecKinds : Construct(w, kind)
  \/ \E w \in Wrappers, content \in Contents : InjectNew(w, content)
  \/ \E w \in Wrappers : InjectNull(w)
  \/ \E w \in Wrappers, mode \in SaveModes : Save(w, mode)
  \/ \E w \in Wrappers : SaveArray(w)
  \/ \E w \in Wrappers, enc \in Encodings : Load(w, enc)
  \/ \E w \in Wrappers : LoadArray(w)

SpecCodec == Init /\ [][NextCodec]_vars

\* ------------------------------------------------------------------------
\* The Context with the wrappers its getters return; ParmsIdType built from
\* a handle
\* ------------------------------------------------------------------------
ContextKinds == {"Context", "ParmsIdType"}

NextContext ==
  \/ \E w \in Wrappers, kind \in ContextKinds : Construct(w, kind)
  \/ \E w \in Wrappers, src \in Wrappers : ConstructParmsIdType(w, src)
  \/ \E w \in Wrappers, content \in Contents : ConstructParmsIdTypeNew(w, content)
  \/ \E w \in Wrappers : Delete(w)
  \/ \E w \in Wrappers, src \in Wrappers : Inject(w, src)
  \/ \E w \in Wrappers, content \in Contents : InjectNew(w, content)
  \/ \E w \in Wrappers, name \in ParmsIdGetters : ParmsIdGetter(w, name)
  \/ \E w \in Wrappers, name \in ContextDataGetters : ContextDataGetter(w, name)

SpecContext == Init /\ [][NextContext]_vars

\* ------------------------------------------------------------------------
\* The Evaluator with its operands; ParmsIdType, whose inject copies the
\* handle it is given
\* ------------------------------------------------------------------------
EvalKinds == {"Evaluator", "Evaluator2", "PlainText", "ParmsIdType"}

NextEval ==
  \/ \E w \in Wrappers, kind \in EvalKinds : Construct(w, kind)
  \/ \E w \in Wrappers : ConstructCipherText(w)
  \/ \E w \in {v \in Wrappers : wr[v].kind \in EvalKinds} : Delete(w)
  \/ \E w \in {v \in Wrappers : wr[v].kind \in EvalKinds} : InjectNull(w)
  \/ \E w \in Wrappers, mode \in SaveModes : Save(w, mode)
  \/ \E w \in Wrappers, enc \in Encodings : Load(w, enc)
  \/ \E w \in Wrappers, name \in EvalOps, p \in Wrappers, d \in Wrappers \cup {0} :
       Evaluate(w, name, p, d)

SpecEval == Init /\ [][NextEval]_vars

\* ------------------------------------------------------------------------
\* GaloisKeys: copy, clone and move (the Handle Wrapper contract, as the
\* tests of GaloisKeys exercise it)
\* ------------------------------------------------------------------------
InvalidStateError == JSError("InvalidStateError", 0, "the wrapper holds no handle")

\* what w.save() returns for a GaloisKeys wrapper holding handle h
KeysSaveOf(hp, h) ==
  IF h # Null /\ hp[h].st = "live" THEN Encode(hp[h].content, DefaultMode) ELSE NoSave

\* GaloisKeysObject() / keyGenerator.galoisKeysLocal(): a wrapper holding a
\* fresh handle
GaloisKeysObject(w, content) ==
  /\ NextWrapper(w)
  /\ Fits("GaloisKeys")
  /\ FreeHandles # {}
  /\ heap' = Allocate(heap, NewHandle, content)
  /\ wr' = [wr EXCEPT ![w] = [kind |-> "GaloisKeys", inst |-> NewHandle]]
  /\ last' = Call("construct", w, "GaloisKeys")
  /\ UNCHANGED <<nIn, nOut>>

\* release: destroys the held handle, if any, and clears the slot
GaloisKeysDelete(w) ==
  /\ w \in Constructed
  /\ wr[w].kind = "GaloisKeys"
  /\ LET held == wr[w].inst
         c == Call("delete", w, "GaloisKeys")
     IN IF held = Null
          THEN /\ last' = c
               /\ UNCHANGED <<wr, heap>>
          ELSE /\ heap' = NativeDelete(heap, held)
               /\ wr' = [wr EXCEPT ![w].inst = Null]
               /\ last' = [c EXCEPT !.dtor = <<held>>]
  /\ UNCHANGED <<nIn, nOut>>

\* the record of dst.copy(src) / dst.move(src) / src.clone()
TransferCall(op, dst, src) ==
  [Call(op, dst, "GaloisKeys") EXCEPT
     !.src = src, !.arg = wr[src].inst, !.pre = KeysSaveOf(heap, wr[src].inst)]

\* copy that accepts an empty source and leaves the destination as it is
copyIgnoresEmptySource(dst, src) ==
  /\ dst \in Constructed /\ src \in Constructed
  /\ wr[dst].kind = "GaloisKeys" /\ wr[src].kind = "GaloisKeys"
  /\ LET c == TransferCall("copy", dst, src)
         a == wr[src].inst
         held == wr[dst].inst
     IN IF a = Null \/ held = Null
          THEN /\ last' = c
               /\ heap' = heap
          ELSE /\ last' = [c EXCEPT !.fwd = 1]
               /\ heap' = [heap EXCEPT ![held].content = heap[a].content]
  /\ UNCHANGED <<nIn, nOut, wr>>

\* dst.copy(src): the native copy-assign of src's state into dst's handle
copy(dst, src) ==
  /\ dst \in Constructed /\ src \in Constructed
  /\ wr[dst].kind = "GaloisKeys" /\ wr[src].kind = "GaloisKeys"
  /\ LET c == TransferCall("copy", dst, src)
         a == wr[src].inst
         held == wr[dst].inst
     IN IF a = Null \/ held = Null
          THEN /\ last' = Failed(c, NoRaise, InvalidStateError, "raw")
               /\ heap' = heap
          ELSE /\ last' = [c EXCEPT !.fwd = 1]
               /\ heap' = [heap EXCEPT ![held].content = heap[a].content]
  /\ UNCHANGED <<nIn, nOut, wr>>

\* the wrapper a clone is returned in
FreeWrapper == CHOOSE v \in Wrappers : NextWrapper(v)

\* clone that hands out the handle of its source
cloneSharesHandle(src) ==
  /\ src \in Constructed
  /\ wr[src].kind = "GaloisKeys"
  /\ LET c == TransferCall("clone", src, src)
         a == wr[src].inst
     IN IF a = Null
          THEN /\ last' = Failed(c, NoRaise, InvalidStateError, "raw")
               /\ UNCHANGED <<wr, heap>>
          ELSE /\ \E v \in Wrappers : NextWrapper(v)
               /\ heap' = heap
               /\ wr' = [wr EXCEPT ![FreeWrapper] = [kind |-> "GaloisKeys", inst |-> a]]
               /\ last' = [c EXCEPT !.fwd = 1, !.dst = FreeWrapper,
                                    !.retw = [kind |-> "GaloisKeys", inst |-> a]]
  /\ UNCHANGED <<nIn, nOut>>

\* src.clone(): a new wrapper with a new handle holding a copy of src's state
clone(src) ==
  /\ src \in Constructed
  /\ wr[src].kind = "GaloisKeys"
  /\ LET c == TransferCall("clone", src, src)
         a == wr[src].inst
     IN IF a = Null
          THEN /\ last' = Failed(c, NoRaise, InvalidStateError, "raw")
               /\ UNCHANGED <<wr, heap>>
          ELSE /\ \E v \in Wrappers : NextWrapper(v)
               /\ FreeHandles # {}
               /\ heap' = Allocate(heap, NewHandle, heap[a].content)
               /\ wr' = [wr EXCEPT ![FreeWrapper] = [kind |-> "GaloisKeys", inst |-> NewHandle]]
               /\ last' = [c EXCEPT !.fwd = 1, !.dst = FreeWrapper,
                                    !.retw = [kind |-> "GaloisKeys", inst |-> NewHandle]]
  /\ UNCHANGED <<nIn, nOut>>

\* move that leaves the handle in the source as well
moveKeepsSource(dst, src) ==
  /\ dst \in Constructed /\ src \in Constructed /\ dst # src
  /\ wr[dst].kind = "GaloisKeys" /\ wr[src].kind = "GaloisKeys"
  /\ LET c == TransferCall("move", dst, src)
         a == wr[src].inst
         held == wr[dst].inst
     IN IF a = Null
          THEN /\ last' = Failed(c, NoRaise, InvalidStateError, "raw")
               /\ UNCHANGED <<wr, heap>>
          ELSE /\ heap' = IF held = Null THEN heap ELSE NativeDelete(heap, held)
               /\ wr' = [wr EXCEPT ![dst].inst = a]
               /\ last' = [c EXCEPT !.fwd = 1,
                                    !.dtor = IF held = Null THEN <<>> ELSE <<held>>]
  /\ UNCHANGED <<nIn, nOut>>

\* dst.move(src), for two wrappers: inject(dst, take(src)); the handle dst
\* held is released, src's handle moves into dst, src is left empty
move(dst, src) ==
  /\ dst \in Constructed /\ src \in Constructed /\ dst # src
  /\ wr[dst].kind = "GaloisKeys" /\ wr[src].kind = "GaloisKeys"
  /\ LET c == TransferCall("move", dst, src)
         a == wr[src].inst
         held == wr[dst].inst
     IN IF a = Null
          THEN /\ last' = Failed(c, NoRaise, InvalidStateError, "raw")
               /\ UNCHANGED <<wr, heap>>
          ELSE /\ heap' = IF held = Null THEN heap ELSE NativeDelete(heap, held)
               /\ wr' = [wr EXCEPT ![dst].inst = a, ![src].inst = Null]
               /\ last' = [c EXCEPT !.fwd = 1,
                                    !.dtor = IF held = Null THEN <<>> ELSE <<held>>]
  /\ UNCHANGED <<nIn, nOut>>

NextKeys ==
  \/ \E w \in Wrappers, content \in Contents : GaloisKeysObject(w, content)
  \/ \E w \in Wrappers : GaloisKeysDelete(w)
  \/ \E dst \in Wrappers, src \in Wrappers : copy(dst, src)
  \/ \E src \in Wrappers : clone(src)
  \/ \E dst \in Wrappers, src \in Wrappers : move(dst, src)

SpecKeys == Init /\ [][NextKeys]_vars

\* ------------------------------------------------------------------------
\* CoeffModulus.Create
\* ------------------------------------------------------------------------
MaxLen == 2

\* the arguments of a call: a polynomial modulus degree, and as bitSizes a
\* typed array of bit sizes, a plain Object, null or undefined
PolyModulusDegrees == {2048, 4096, 8192}
BitSizeValues == {20, 30, 40}
BitArrays == UNION {[1..n -> BitSizeValues] : n \in 0..MaxLen}
NoBits == [ctor |-> "none", elems |-> <<>>]
BitSizesArgs ==
  [ctor : {"Int32Array", "Float64Array"}, elems : BitArrays]
    \cup {[ctor |-> k, elems |-> <<>>] : k \in {"Object", "null", "undefined"}}

\* the messages of the two Errors Create builds (the source writes bitSizes
\* between backquotes)
Deprecated ==
  "CoeffModulus.Create with bitSizes of type Vector has been deprecated since 3.2.0, use an Int32Array"
Unsupported == "Unsupported argument type! bitSizes must be either an Int32Array"

\* library.CoeffModulus.CreateFromArray: the vector of primes, identified by
\* the degree and the bit sizes it is made for
CreateFromArray(polyModulusDegree, elems) == <<polyModulusDegree>> \o elems

\* Create(polyModulusDegree, bitSizes) {
\*   try { if (bitSizes.constructor === Object) { throw new Error('...deprecated...') }
\*         if (bitSizes.constructor === Int32Array) {
\*           return _CreateFromArray(polyModulusDegree, bitSizes) }
\*         throw new Error('Unsupported argument type! ...')
\*   } catch (e) { throw Exception.safe(e) } }
Create(polyModulusDegree, bitSizes) ==
  /\ LET how == "safePositional"
         c == [NoCall EXCEPT !.op = "Create", !.kind = "CoeffModulus",
                             !.deg = polyModulusDegree, !.bits = bitSizes]
     IN CASE bitSizes.ctor \in {"null", "undefined"} ->
               \* `bitSizes.constructor` of null
               last' = Failed(c, NoRaise, Surface(how, NullDeref), how)
          [] bitSizes.ctor = "Object" ->
               last' = Failed(c, NoRaise, Surface(how, NewError(Deprecated)), how)
          [] bitSizes.ctor = "Int32Array" ->
               \E e \in {NoRaise} \cup NativeRaised :
                  last' = IF e = NoRaise
                            THEN [c EXCEPT !.fwd = 1, !.vec =
                                    CreateFromArray(polyModulusDegree, bitSizes.elems)]
                            ELSE Failed([c EXCEPT !.fwd = 1], e, Surface(how, e), how)
          [] OTHER ->
               last' = Failed(c, NoRaise, Surface(how, NewError(Unsupported)), how)
  /\ UNCHANGED <<nIn, nOut, wr, heap>>

NextCreate ==
  \E polyModulusDegree \in PolyModulusDegrees, bitSizes \in BitSizesArgs :
     Create(polyModulusDegree, bitSizes)

SpecCreate == Init /\ [][NextCreate]_vars

\* ------------------------------------------------------------------------
\* The normalizer applied to every value and calling shape
\* ------------------------------------------------------------------------
InitSafe ==
  /\ nIn \in Args
  /\ nOut = NotCalled
  /\ wr = [w \in Wrappers |-> [kind |-> "none", inst |-> Null]]
  /\ heap = [h \in Handles |-> [st |-> "free", content |-> 0]]
  /\ last = NoCall

CallSafe ==
  /\ nOut = NotCalled
  /\ nOut' = safe(nIn)
  /\ UNCHANGED <<nIn, wr, heap, last>>

NextSafe == CallSafe

SpecSafe == InitSafe /\ [][NextSafe]_vars

\* ------------------------------------------------------------------------
\* Properties
\* ------------------------------------------------------------------------
Occurrences(seq, x) == Cardinality({i \in DOMAIN seq : seq[i] = x})

\* C1: after any sequence of construct, inject and delete calls, no native
\* handle is referenced by the instance slot of two different wrappers.
C1_HandleExclusive ==
  \A v \in Constructed, w \in Constructed :
    (v # w /\ wr[v].inst # Null) => wr[v].inst # wr[w].inst

\* C2: the native destructor is invoked at most once on each native handle.
C2_NoDoubleFree == \A h \in Handles : heap[h].st # "dead twice"

\* C3: for Evaluator, Context, EncryptionParameterQualifiers, PlainText,
\* RelinKeys and PublicKey, inject on a wrapper that holds handle h invokes
\* the native destructor on h exactly once, and afterwards the wrapper's
\* instance is the injected handle.
C3_InjectReleasesOnce ==
  (/\ last.op = "inject"
   /\ last.kind \in {"Evaluator", "Context", "EncryptionParameterQualifiers",
                     "PlainText", "RelinKeys", "PublicKey"}
   /\ last.held # Null)
    => /\ Occurrences(last.dtor, last.held) = 1
       /\ wr[last.w].inst = last.arg

\* C4: for every wrapper kind, delete never faults and leaves instance null,
\* and a delete that directly follows a delete on the same wrapper invokes
\* no native destructor.
C4_ReleaseIdempotent ==
  last.op = "delete"
    => /\ last.out = "ok"
       /\ wr[last.w].inst = Null
       /\ last.again => last.dtor = <<>>

\* C5: a domain operation (an Evaluator operation, a getter, save) on a
\* wrapper whose instance is null fails with the use-after-release error
\* (the TypeError the tests expect) and forwards no call to the native layer.
C5_UseAfterRelease ==
  (last.op \in {"get", "save", "op"} /\ last.held = Null)
    => /\ last.out = "throw"
       /\ last.err.name = "TypeError"
       /\ last.fwd = 0

\* C6: after dst.inject(src.instance), with src holding a live handle other
\* than the one dst holds, dst.save() returns what src.save() returned
\* before the injection, and the handle dst held before is no longer live
\* (no leak).
C6_InjectThenSave ==
  (last.op = "inject" /\ last.pre # NoSave /\ last.arg # last.held)
    => /\ wr[last.w].inst # Null
       /\ heap[wr[last.w].inst].st = "live"
       /\ SaveOf(heap, last.kind, wr[last.w].inst) = last.pre
       /\ last.held # Null => heap[last.held].st # "live"

\* C7: Exception.safe({ error }) returns one Error: for a number, an Error
\* whose message is the native lookup getException(code); for an Error, that
\* same Error; for another non-empty value, an Error with that value as its
\* message; for an absent or empty value, an Error with 'Unknown Error!'.
C7_SafeMapping ==
  (nOut # NotCalled /\ nIn.wrapped)
    => LET error == nIn.val IN
       /\ ~nOut.thrown
       /\ nOut.val.t = "error"
       /\ error.t = "number" => nOut.val = JSError("Error", 0, getException(error))
       /\ error.t = "error" => nOut.val = error
       /\ (error.t = "string" /\ error.s # "") => nOut.val = JSError("Error", 0, error.s)
       /\ (error.t \in {"null", "undefined"} \/ error = JSString(""))
            => nOut.val = JSError("Error", 0, "Unknown Error!")

C7_Witness ==
  /\ nOut # NotCalled
  /\ nIn.wrapped
  /\ nIn.val.t = "error"
  /\ nOut = Return(nIn.val)

\* C8: Exception.safe never throws itself: for every raised value, in every
\* calling shape used in the repository, it returns an Error.
C8_SafeNeverThrows ==
  nOut # NotCalled => (~nOut.thrown /\ nOut.val.t = "error")

\* C9: every failure the native layer raises reaches the caller through the
\* normalizer, and an Error raised by the native layer reaches the caller as
\* that same Error.
C9_NormalizedOnce ==
  last.raised # NoRaise
    => /\ last.norm = 1
       /\ last.raised.t = "error" => last.err = last.raised

\* C10: for every wrapper kind, a failure of the native constructor reaches
\* the caller through the normalizer, as an Error, and no wrapper is returned.
C10_CtorFailureNormalized ==
  (last.op = "construct" /\ last.out = "throw")
    => /\ last.norm = 1
       /\ last.err.t = "error"
       /\ wr[last.w].kind = "none"

\* C11: save on a wrapper that holds no handle fails with the invalid-state
\* error (the TypeError the tests expect), returns no encoding, forwards
\* nothing to the native layer and leaves the wrapper's slot empty.
C11_SaveOnEmptySlot ==
  (last.op = "save" /\ last.held = Null)
    => /\ last.out = "throw"
       /\ last.err.t = "error"
       /\ last.err.name = "TypeError"
       /\ last.ret = NoSave
       /\ last.fwd = 0
       /\ wr[last.w].inst = Null

C11_Witness ==
  /\ last.op = "save"
  /\ last.held = Null
  /\ last.out = "throw"
  /\ wr[last.w].kind \in CodecKinds

\* C12: for every kind with save, loading a valid encoding (string form,
\* load; byte form, loadArray) into a wrapper that holds a live handle
\* succeeds, and the wrapper's save output in the mode of the encoding is
\* then that encoding; the byte form saveArray yields an encoding.
C12_RoundTrip ==
  /\ (last.op = "load" /\ last.enc \in ValidEncodings /\ last.pre # NoSave)
       => /\ last.out = "ok"
          /\ Encode(heap[wr[last.w].inst].content, ModeOf(last.enc)) = last.enc
  /\ (last.op \in {"saveArray", "loadArray"} /\ last.held # Null)
       => last.out = "ok"

\* C13: loading a corrupted or truncated input always fails with an Error
\* (the deserialization error), and the target's handle and save output are
\* the same as before the failed load.
C13_CorruptedLoadFails ==
  (last.op = "load" /\ last.enc \in Corrupted)
    => /\ last.out = "throw"
       /\ last.err.t = "error"
       /\ wr[last.w].inst = last.held
       /\ last.pre # NoSave => SaveOf(heap, last.kind, last.held) = last.pre

\* C17: when an Evaluator operation, save or load throws, the instance slot
\* of every wrapper (the one called, the operands, the destination) is what
\* it was before the call; a failed inject has still released the handle the
\* wrapper held.
C17_FailedCallKeepsSlots ==
  [][/\ (last'.op \in {"op", "save", "load"} /\ last'.out = "throw") => wr' = wr
     /\ (last'.op = "inject" /\ last'.out = "throw" /\ last'.held # Null)
          => heap'[last'.held].st # "live"]_vars

C17_Witness ==
  /\ last.op = "op"
  /\ last.out = "throw"
  /\ last.raised \in NativeRaised
  /\ last.dst # 0
  /\ wr[last.dst].inst # Null

\* C18: a successful Evaluator operation with a destination stores the
\* result of that operation in the destination and returns undefined; without
\* a destination it returns a newly allocated wrapper that contains the
\* result of that operation.
C18_ResultPlacement ==
  (last.op = "op" /\ last.out = "ok")
    => IF last.dst # 0
         THEN /\ last.retw = NoWrapper
              /\ heap[wr[last.dst].inst].content = NativeOp(last.name, last.x)
         ELSE /\ last.retw.kind = OperandKind(last.name)
              /\ last.retw.inst # Null
              /\ last.retw.inst \notin {wr[v].inst : v \in Constructed}
              /\ heap[last.retw.inst].st = "live"
              /\ heap[last.retw.inst].content = NativeOp(last.name, last.x)

\* C20: save with a compression value outside library.ComprModeType fails
\* and forwards nothing to the native saveToString.
C20_OnlySupportedModes ==
  (last.op = "save" /\ last.mode \notin ComprModes)
    => /\ last.out = "throw"
       /\ last.fwd = 0

\* C19: a successful Context.getContextData(parmsId) returns null when the
\* context has no parameters with the given parmsId, and otherwise a
\* ContextData wrapper that holds the live native context-data handle.
C19_GetContextData ==
  (last.op = "getContextData" /\ last.out = "ok")
    => IF last.found
         THEN /\ last.retw.kind = "ContextData"
              /\ last.retw.inst # Null
              /\ heap[last.retw.inst].st = "live"
         ELSE last.retw = NoWrapper

\* C14: dst.move(src), with src holding a handle, succeeds, leaves
\* src.instance null and dst holding src's handle, with dst.save() equal to
\* what src.save() was before the move; the handle dst held before the move
\* is destroyed exactly once.
C14_MoveTransfers ==
  (last.op = "move" /\ last.arg # Null)
    => /\ last.out = "ok"
       /\ wr[last.src].inst = Null
       /\ wr[last.w].inst = last.arg
       /\ KeysSaveOf(heap, wr[last.w].inst) = last.pre
       /\ last.held # Null => /\ Occurrences(last.dtor, last.held) = 1
                              /\ heap[last.held].st = "dead"

C14_Witness ==
  /\ last.op = "move"
  /\ last.out = "ok"
  /\ last.held # Null
  /\ last.pre # NoSave
  /\ wr[last.src].inst = Null

\* C15: src.clone(), with src holding a handle, returns a new wrapper of the
\* same kind that holds a live handle other than src's, whose save() equals
\* src.save(); releasing the clone right afterwards leaves src's handle live
\* and src.save() unchanged.
C15_CloneIndependent ==
  [][/\ (last'.op = "clone" /\ last'.arg # Null)
          => /\ last'.out = "ok"
             /\ last'.retw.kind = last'.kind
             /\ last'.retw.inst \notin {Null, last'.arg}
             /\ wr'[last'.dst] = last'.retw
             /\ heap'[last'.retw.inst].st = "live"
             /\ KeysSaveOf(heap', last'.retw.inst) = last'.pre
             /\ KeysSaveOf(heap', wr'[last'.w].inst) = last'.pre
     /\ (last.op = "clone" /\ last.out = "ok"
           /\ last'.op = "delete" /\ last'.w = last.dst)
          => /\ wr'[last.w].inst = last.arg
             /\ heap'[last.arg].st = "live"
             /\ KeysSaveOf(heap', last.arg) = last.pre]_vars

C15_Witness ==
  /\ last.op = "clone"
  /\ last.out = "ok"
  /\ last.retw.inst # Null
  /\ wr[last.dst] = last.retw
  /\ last.pre # NoSave

C21_EmptyOnlyAfterRelease ==
  [][\A w \in Wrappers :
       (/\ wr'[w].kind # "none"
        /\ wr'[w].inst = Null
        /\ ~(wr[w].kind # "none" /\ wr[w].inst = Null))
         => (last'.op = "delete" /\ last'.w = w)]_vars

\* ------------------------------------------------------------------------
\* C23: no wrapper holds a destroyed handle: every slot that is not null
\* references a handle that is live (its destructor has not been called).
\* ------------------------------------------------------------------------
C23_NoDestroyedHandleHeld ==
  \A w \in Constructed :
     wr[w].inst # Null => heap[wr[w].inst].st = "live"

\* the handles on which the constructor has run and the destructor has not
LiveHandles(hp) == {h \in Handles : hp[h].st = "live"}

\* ------------------------------------------------------------------------
\* C22: cipherTransformFromNtt applies the same native operation to the same
\* input with and without a destination: whenever the method forwards to
\* the native layer, the native method called is cipherTransformFromNtt and
\* its input is the handle of the operand.
\* ------------------------------------------------------------------------
C22_SameNativeOperation ==
  (last.op = "op" /\ last.name = "cipherTransformFromNtt" /\ last.fwd = 1)
    => /\ last.native = "cipherTransformFromNtt"
       /\ last.arg = wr[last.src].inst

\* ------------------------------------------------------------------------
\* C24: no leak on the error path of an Evaluator method: when a method is
\* called without a destination and the native call raises, the step leaves
\* as many live native handles as it found.
\* ------------------------------------------------------------------------
C24_NoLeakOnError ==
  [][(/\ last'.op = "op"
      /\ last'.dst = 0
      /\ last'.fwd = 1
      /\ last'.out = "throw")
       => Cardinality(LiveHandles(heap')) = Cardinality(LiveHandles(heap))]_vars

\* ------------------------------------------------------------------------
\* C30: Evaluator operations never change ownership: a step that is an
\* Evaluator method, successful or failed, leaves the slot of every wrapper
\* (the Evaluator, the operand, the destination and every other one)
\* referencing the handle it referenced, and destroys no existing handle.
\* ------------------------------------------------------------------------
C30_OperationsKeepOwnership ==
  [][last'.op = "op"
       => /\ wr' = wr
          /\ last'.dtor = <<>>
          /\ \A h \in Handles :
               heap[h].st # "free" => heap'[h].st = heap[h].st]_vars

C30_Witness ==
  /\ last.op = "op"
  /\ last.out = "ok"
  /\ last.fwd = 1
  /\ last.dst # 0
  /\ wr[last.w].inst # Null
  /\ wr[last.src].inst # Null
  /\ wr[last.dst].inst # Null

\* ------------------------------------------------------------------------
\* C25: ParmsIdType takes ownership by copy: a step that constructs
\* ParmsIdType(h) or calls inject(h) with a handle h that is live at the call
\* (or that the native layer produces for the call) succeeds and leaves the
\* wrapper holding a newly allocated handle other than h, with h destroyed
\* exactly once and, for inject, the handle held before destroyed exactly
\* once; a construction with no argument that succeeds allocates one handle
\* and destroys none.
\* ------------------------------------------------------------------------
C25_OwnershipByCopy ==
  [][(last'.kind = "ParmsIdType" /\ last'.op \in {"construct", "inject"})
       => LET w == last'.w
              h == last'.arg
              held == last'.held
          IN IF h = Null
               THEN (last'.op = "construct" /\ last'.out = "ok")
                      => /\ last'.dtor = <<>>
                         /\ heap[wr'[w].inst].st = "free"
                         /\ LiveHandles(heap') = LiveHandles(heap) \cup {wr'[w].inst}
               ELSE heap[h].st \in {"free", "live"}
                      => /\ last'.out = "ok"
                         /\ wr'[w].inst \notin {Null, h}
                         /\ heap[wr'[w].inst].st = "free"
                         /\ heap'[wr'[w].inst].st = "live"
                         /\ Occurrences(last'.dtor, h) = 1
                         /\ heap'[h].st = "dead"
                         /\ (last'.op = "inject" /\ held # Null)
                              => /\ Occurrences(last'.dtor, held) = 1
                                 /\ heap'[held].st = "dead"]_vars

\* ------------------------------------------------------------------------
\* C26: a read of keyParmsId, firstParmsId, lastParmsId, keyContextData,
\* firstContextData or lastContextData leaves the Context's own slot alone;
\* when it returns, it returns a wrapper of the getter's kind that holds a
\* live handle no other wrapper references, and the handle the native getter
\* returned is the one the returned wrapper holds or is destroyed (once);
\* when it throws, no handle was produced.
\* ------------------------------------------------------------------------
C26_GettersReturnOwners ==
  (last.op = "get" /\ last.name \in ParmsIdGetters \cup ContextDataGetters)
    => /\ wr[last.w].inst = last.held
       /\ last.out = "ok"
            => /\ last.retw.kind = IF last.name \in ParmsIdGetters
                                     THEN "ParmsIdType" ELSE "ContextData"
               /\ last.retw.inst # Null
               /\ heap[last.retw.inst].st = "live"
               /\ \A v \in Constructed : wr[v].inst # last.retw.inst
               /\ last.arg # Null
               /\ last.arg = last.retw.inst \/ heap[last.arg].st = "dead"
               /\ last.held # Null /\ heap[last.held].st = "live"
       /\ last.out = "throw" => (last.retw = NoWrapper /\ last.arg = Null)

C26_Witness ==
  /\ last.op = "get"
  /\ last.name \in ParmsIdGetters
  /\ last.out = "ok"
  /\ last.arg # Null
  /\ last.retw.inst # last.arg
  /\ heap[last.arg].st = "dead"

\* ------------------------------------------------------------------------
\* C27: for every kind with save and load, a load that reaches the native
\* loadFromString passes it the native handle of the context
\* (context.instance), and a save that reaches the native saveToString
\* passes it the compression mode selected (deflate when none is given).
\* ------------------------------------------------------------------------
C27_ForwardedArguments ==
  /\ (last.op = "load" /\ last.fwd = 1) => last.ctx = "instance"
  /\ (last.op = "save" /\ last.fwd = 1) => last.sent = last.mode

\* ------------------------------------------------------------------------
\* C28: when the native layer raises a numeric exception code n inside an
\* Evaluator operation, an Evaluator constructor or an
\* EncryptionParameterQualifiers getter, the caller is thrown an Error whose
\* message is getException(n).
\* ------------------------------------------------------------------------
C28_NumericErrorResolved ==
  (/\ last.out = "throw"
   /\ last.raised.t = "number"
   /\ \/ last.kind \in {"Evaluator", "Evaluator2"} /\ last.op \in {"op", "construct"}
      \/ last.kind = "EncryptionParameterQualifiers" /\ last.op = "get")
    => last.err = NewError(getException(last.raised))

\* ------------------------------------------------------------------------
\* C29: CoeffModulus.Create calls the native CreateFromArray exactly once
\* and returns its result when bitSizes is an Int32Array; for any other
\* bitSizes it makes no native call and throws an Error whose message states
\* the deprecation (a plain Object) or the unsupported argument type.
\* ------------------------------------------------------------------------
C29_CreateDispatch ==
  last.op = "Create"
    => IF last.bits.ctor = "Int32Array"
         THEN /\ last.fwd = 1
              /\ last.out = "ok" => last.vec = CreateFromArray(last.deg, last.bits.elems)
         ELSE /\ last.fwd = 0
              /\ last.out = "throw"
              /\ last.err.t = "error"
              /\ last.err.s = IF last.bits.ctor = "Object" THEN Deprecated ELSE Unsupported

====
